---- MODULE Spec2Model ----
(***************************************************************************)
(* Model of mingkaic/imgdb: ImgDB.AddImg (src/imgdb.go) and the imgutil     *)
(* helpers it calls (src/unnamed/part_000).                                 *)
(*                                                                          *)
(* Every AddImg call is one process of Procs.  A call is cut into steps at  *)
(* the mutex operations, at each call to the record store (gorm) and at     *)
(* each call to the file system; what lies between two such points is local *)
(* computation and belongs to the step before it.                           *)
(*                                                                          *)
(* Numbers.  A float32 histogram value v in [0,1] is the integer v*Unit.    *)
(* ChiDist is computed in units of 1/(Unit*Unit) with truncating division;  *)
(* epsilon (1e-10) is below that resolution, so it only keeps the term of   *)
(* two empty bins (0/epsilon) at 0.                                         *)
(***************************************************************************)
EXTENDS Integers, Sequences, FiniteSets, TLC

\* ------------------------------------------------------------- bounds
\* number of AddImg calls (one process each)
NProcs == 2
\* bins of a feature vector (512 in GenerateFeature; 8 is one full byte of
\* the signature)
FeatLen == 8
\* fixed-point resolution of a histogram value
Unit == 1000

Procs == 1..NProcs
NoProc == 0

\* ------------------------------------------------------------- constants
minLimit == 500
chiThresh == (5 * Unit * Unit) \div 1000
Inf == 2000000000

\* ------------------------------------------------------------- imgutil
\* A histogram with all mass in bin i but k units, which lie in bin j.
Vec(i, j, k) ==
    [x \in 1..FeatLen |-> IF i = j /\ x = i THEN Unit
                          ELSE IF x = i THEN Unit - k
                          ELSE IF x = j THEN k ELSE 0]

\* What image.Decode yields for each input byte string of the model: an
\* error, or the bounds, the format and the pixel histogram (what Describe
\* computes from the pixels).
Decode(data) ==
    CASE data = "red"    -> [err |-> FALSE, w |-> minLimit, h |-> minLimit,
                             format |-> "jpeg", hist |-> Vec(1, 1, 0)]
      [] data = "red1"   -> [err |-> FALSE, w |-> minLimit + 1, h |-> minLimit,
                             format |-> "jpeg", hist |-> Vec(1, 2, 1)]
      [] data = "red8"   -> [err |-> FALSE, w |-> minLimit, h |-> minLimit + 1,
                             format |-> "png", hist |-> Vec(1, 2, 8)]
      [] data = "red15"  -> [err |-> FALSE, w |-> minLimit + 1, h |-> minLimit + 1,
                             format |-> "jpeg", hist |-> Vec(1, 2, 15)]
      [] data = "narrow" -> [err |-> FALSE, w |-> minLimit - 1, h |-> minLimit,
                             format |-> "png", hist |-> Vec(1, 1, 0)]
      [] data = "short"  -> [err |-> FALSE, w |-> minLimit, h |-> minLimit - 1,
                             format |-> "jpeg", hist |-> Vec(1, 1, 0)]
      [] data = "gif"    -> [err |-> FALSE, w |-> minLimit, h |-> minLimit,
                             format |-> "gif", hist |-> Vec(1, 1, 0)]
      [] data = "red100" -> [err |-> FALSE, w |-> 100, h |-> 100,
                             format |-> "jpeg", hist |-> Vec(1, 1, 0)]
      [] OTHER           -> [err |-> TRUE, w |-> 0, h |-> 0,
                             format |-> "", hist |-> << >>]

DataSet ==
    {"red", "red1", "red8", "red15", "narrow", "short", "gif", "red100",
     "junk"}

\* GenerateFeature: the histogram for png and jpeg, nil (<< >>) otherwise.
GenerateFeature(img, format) ==
    IF format = "png" \/ format = "jpeg" THEN img.hist ELSE << >>

RECURSIVE ChiAccumOneSided(_, _, _)
\* Mutant: the denominator is taken from the first vector only.
ChiAccumOneSided(feat1, feat2, i) ==
    IF i = 0 THEN 0
    ELSE LET num == feat1[i] - feat2[i]
             den == 2 * feat1[i]
         IN  ChiAccumOneSided(feat1, feat2, i - 1)
               + (IF den = 0 THEN 0 ELSE (num * num * Unit) \div den)

RECURSIVE ChiAccum(_, _, _)
\* accum after the first i bins.
ChiAccum(feat1, feat2, i) ==
    IF i = 0 THEN 0
    ELSE LET num == feat1[i] - feat2[i]
             den == feat1[i] + feat2[i]
         IN  ChiAccum(feat1, feat2, i - 1)
               + (IF den = 0 THEN 0 ELSE (num * num * Unit) \div den)

\* ChiDist, in units of 1/(Unit*Unit).
ChiDist(feat1, feat2) ==
    IF Len(feat1) # Len(feat2) THEN Inf
    ELSE ChiAccum(feat1, feat2, Len(feat1)) \div 2

\* ------------------------------------------------------------- serialization
\* Mutant: big endian.
stringifyBigEndian(arr) ==
    [k \in 1..(4 * Len(arr)) |->
        LET v == arr[((k - 1) \div 4) + 1]
            j == (k - 1) % 4
        IN  CASE j = 3 -> v % 256
              [] j = 2 -> (v \div 256) % 256
              [] j = 1 -> (v \div 65536) % 256
              [] OTHER -> (v \div 16777216) % 256]

\* stringify: binary.Write, little endian, 4 bytes per value.
stringify(arr) ==
    [k \in 1..(4 * Len(arr)) |->
        LET v == arr[((k - 1) \div 4) + 1]
            j == (k - 1) % 4
        IN  CASE j = 0 -> v % 256
              [] j = 1 -> (v \div 256) % 256
              [] j = 2 -> (v \div 65536) % 256
              [] OTHER -> (v \div 16777216) % 256]

\* Mutant: only the low byte of each value is read back.
featureParseLowByte(str) ==
    [i \in 1..(Len(str) \div 4) |-> str[4 * i - 3]]

\* featureParse: len/4 values read back little endian.
featureParse(str) ==
    [i \in 1..(Len(str) \div 4) |->
        str[4 * i - 3] + 256 * str[4 * i - 2]
          + 65536 * str[4 * i - 1] + 16777216 * str[4 * i]]

\* Mutant: rounding up.
UintCeil(f) == (f + Unit - 1) \div Unit

\* uint(f) of a non-negative float32: truncation.
Uint(f) == f \div Unit

RECURSIVE AccumByte(_, _, _)
\* accum after the bins 8g .. 8g+bi (0-based) of group g.
AccumByte(arr, g, bi) ==
    IF bi < 0 THEN 0
    ELSE AccumByte(arr, g, bi - 1)
           + (IF Uint(arr[8 * g + bi + 1]) > 0 THEN 2 ^ bi ELSE 0)

\* bitApproximation: n/8 + n%8 bytes; byte i/8 is written when bin i is the
\* eighth of its group, so the bins of an incomplete last group are dropped.
bitApproximation(arr) ==
    LET n == Len(arr)
        outN == (n \div 8) + (n % 8)
    IN  [k \in 1..outN |->
            IF 8 * k <= n THEN AccumByte(arr, k - 1, 7) ELSE 0]

\* hex.Encode of a byte string.
HexDigit(d) ==
    CASE d = 0 -> "0" [] d = 1 -> "1" [] d = 2 -> "2" [] d = 3 -> "3"
      [] d = 4 -> "4" [] d = 5 -> "5" [] d = 6 -> "6" [] d = 7 -> "7"
      [] d = 8 -> "8" [] d = 9 -> "9" [] d = 10 -> "a" [] d = 11 -> "b"
      [] d = 12 -> "c" [] d = 13 -> "d" [] d = 14 -> "e" [] OTHER -> "f"

RECURSIVE HexEncode(_)
HexEncode(r) ==
    IF r = << >> THEN ""
    ELSE HexDigit(Head(r) \div 16) \o HexDigit(Head(r) % 16) \o HexEncode(Tail(r))

\* What io.ReadFull(rando, r[:]) can leave in r: here two of the 2^64
\* values; the all-zero one is also what a failed read leaves.
RandReads ==
    { <<0, 0, 0, 0, 0, 0, 0, 0>>, <<1, 35, 69, 103, 137, 171, 205, 239>> }

\* Declared names: a plain one, and one that has the form of a suffixed name.
NameSet == {"a", "a" \o HexEncode(<<0, 0, 0, 0, 0, 0, 0, 0>>)}

\* The arguments of a call: every name with every image that passes the
\* checks, one name with each image that does not (its name is never used).
Inputs ==
    {in \in NameSet \X DataSet :
        in[1] = "a" \/ in[2] \in {"red", "red1", "red8", "red15"}}

\* ------------------------------------------------------------- state
VARIABLES
    pc,         \* pc[p]: where call p stands
    name,       \* name[p], data[p]: the arguments of call p
    data,
    features,   \* features[p]: local of AddImg
    filename,   \* filename[p]: local of AddImg
    imgModel,   \* imgModel[p]: the *ImageFile the call returns
    cluster,    \* cluster[p]: ID of the Cluster getCluster returned
    err,        \* err[p]: the error the call returns
    mutex,      \* ImgDB.mutex: the holder, or NoProc
    clusters,   \* table of Cluster rows, ID = index
    imageFiles, \* table of ImageFile rows, ID = index
    files,      \* the blob directory: filename -> content
    hist,       \* hist[p]: what call p did so far (history, read by no action)
    in1,        \* the arguments and the results of a direct call of ChiDist or
    in2,        \* bitApproximation (SpecFn); AddImg does not touch them
    out

fnVars == <<in1, in2, out>>

vars == <<pc, name, data, features, filename, imgModel, cluster, err, mutex,
          clusters, imageFiles, files, hist, in1, in2, out>>

\* no direct call made
NoOut == [fn |-> ""]

NilErr == [kind |-> "nil"]
NoModel == [Name |-> "", Format |-> "", Index |-> << >>]
Empty == "<empty>"
Mixed == "<mixed>"

NoHist ==
    [locks |-> 0,          \* times the call acquired the mutex
     atLock |-> << >>,     \* <<clusters, imageFiles>> when it acquired it
     made |-> 0,           \* ID of the Cluster it created
     mine |-> 0,           \* ID of the ImageFile it appended
     storeOps |-> 0,       \* record-store calls it made
     bareStore |-> FALSE,  \* a record-store call made without holding the mutex
     blobOps |-> 0,        \* file-system calls it made
     lockedBlob |-> FALSE, \* a file-system call made while holding the mutex
     blob |-> "",          \* content of its file when its Write returned
     suffix |-> ""]        \* the suffix it drew

\* No call made yet, on a database and a blob directory with the given content.
InitStore(cls, imgs, fs) ==
    /\ pc = [p \in Procs |-> "idle"]
    /\ name = [p \in Procs |-> ""]
    /\ data = [p \in Procs |-> ""]
    /\ features = [p \in Procs |-> << >>]
    /\ filename = [p \in Procs |-> ""]
    /\ imgModel = [p \in Procs |-> NoModel]
    /\ cluster = [p \in Procs |-> 0]
    /\ err = [p \in Procs |-> NilErr]
    /\ mutex = NoProc
    /\ clusters = cls
    /\ imageFiles = imgs
    /\ files = fs
    /\ hist = [p \in Procs |-> NoHist]

InitWith(cls, imgs, fs) ==
    /\ InitStore(cls, imgs, fs)
    /\ in1 = << >>
    /\ in2 = << >>
    /\ out = NoOut

\* New on a new database file and an empty directory.
Init == InitWith(<< >>, << >>, << >>)


\* ------------------------------------------------------------- record store
\* ImgDB.MinW, ImgDB.MinH as New sets them.
MinW == minLimit
MinH == minLimit

\* Mutant: the query finds nothing.
FindClustersNone(tbl, sig) == {}

\* db.Find(&dirs, "name = ?", cluster): the IDs of the matching rows.
FindClusters(tbl, sig) == {i \in DOMAIN tbl : tbl[i].Name = sig}

Min(S) == CHOOSE x \in S : \A y \in S : x <= y

\* getCluster: the first Cluster row named by the signature, created when
\* there is none.  Yields the table afterwards and the ID of the result.
getCluster(tbl, feats) ==
    LET sig == bitApproximation(feats)
        dirs == FindClusters(tbl, sig)
    IN  IF dirs # {}
        THEN [clusters |-> tbl, result |-> Min(dirs), created |-> FALSE]
        ELSE [clusters |-> Append(tbl, [Name |-> sig]),
              result |-> Len(tbl) + 1, created |-> TRUE]

\* Mutant: every ImageFile row, whatever its cluster.
getAssocsAll(tbl, cid) == DOMAIN tbl

\* getAssocs: the IDs of the ImageFile rows associated with the cluster.
getAssocs(tbl, cid) == {i \in DOMAIN tbl : tbl[i].ClusterID = cid}

\* Mutant: the threshold of the earlier revision, 1e-5.
TooSimilarOldThresh(tbl, imgFiles, feats) ==
    {i \in imgFiles :
        ChiDist(feats, featureParse(tbl[i].Index))
          < (Unit * Unit) \div 100000}

\* The rows of imgFiles the similarity loop of AddImg can return on: those
\* with sim < chiThresh.  The loop returns on the first one in the order the
\* query lists them, which no ORDER BY fixes: any of them can be that one.
TooSimilar(tbl, imgFiles, feats) ==
    {i \in imgFiles : ChiDist(feats, featureParse(tbl[i].Index)) < chiThresh}

\* Mutant: the query is made with the filename (name.format).
fileExistsByFilename(tbl, nm) ==
    \E i \in DOMAIN tbl : tbl[i].Name = nm \o "." \o tbl[i].Format

\* fileExists: some ImageFile row has the name.
fileExists(tbl, nm) == \E i \in DOMAIN tbl : tbl[i].Name = nm

\* Association("ImageFiles").Append(*imgModel): inserts the row with the
\* cluster's ID as foreign key.  ImageFile.Name is declared unique, so the
\* insert of a name that is taken fails; AddImg drops that error.
AppendImageFile(tbl, cid, model) ==
    IF \E i \in DOMAIN tbl : tbl[i].Name = model.Name THEN tbl
    ELSE Append(tbl, [Name |-> model.Name, Format |-> model.Format,
                      Index |-> model.Index, ClusterID |-> cid])

\* ------------------------------------------------------------- AddImg
\* Mutant: a dimension equal to the minimum is rejected.
TooSmallInclusive(img) == img.w <= MinW \/ img.h <= MinH

\* The size filter of AddImg.
TooSmall(img) == img.w < MinW \/ img.h < MinH

\* The error AddImg returns before the critical section, if any.
EntryError(nm, img) ==
    IF img.err THEN [kind |-> "decode"]
    ELSE IF TooSmall(img) THEN [kind |-> "small", w |-> img.w, h |-> img.h]
    ELSE IF GenerateFeature(img, img.format) = << >>
         THEN [kind |-> "features", name |-> nm]
    ELSE NilErr

\* Mutant: the two names the other way round.
DupFileErrorSwapped(existing, dupfile) ==
    [kind |-> "dup", existing |-> dupfile, dupfile |-> existing]

DupFileError(existing, dupfile) ==
    [kind |-> "dup", existing |-> existing, dupfile |-> dupfile]

IOError == [kind |-> "io"]

\* AddImg up to the critical section: decode, size filter, feature
\* extraction, filename and imgModel.  Calls are numbered in the order in
\* which they are made.
Begin(p) ==
    /\ pc[p] = "idle"
    /\ \A q \in Procs : q < p => pc[q] # "idle"
    /\ \E in \in Inputs :
         LET nm == in[1]
             d == in[2]
             img == Decode(d)
             e == EntryError(nm, img)
             feats == GenerateFeature(img, img.format)
         IN  /\ name' = [name EXCEPT ![p] = nm]
             /\ data' = [data EXCEPT ![p] = d]
             /\ err' = [err EXCEPT ![p] = e]
             /\ IF e # NilErr
                THEN /\ pc' = [pc EXCEPT ![p] = "done"]
                     /\ UNCHANGED <<features, filename, imgModel>>
                ELSE /\ pc' = [pc EXCEPT ![p] = "lock"]
                     /\ features' = [features EXCEPT ![p] = feats]
                     /\ filename' = [filename EXCEPT
                                       ![p] = nm \o "." \o img.format]
                     /\ imgModel' = [imgModel EXCEPT
                                       ![p] = [Name |-> nm,
                                               Format |-> img.format,
                                               Index |-> stringify(feats)]]
    /\ UNCHANGED <<cluster, mutex, clusters, imageFiles, files, hist>>
    /\ UNCHANGED fnVars

\* Mutant: no mutual exclusion ("todo: make threadsafe").
LockNoWait(p) ==
    /\ pc[p] = "lock"
    /\ mutex' = p
    /\ pc' = [pc EXCEPT ![p] = "getCluster"]
    /\ hist' = [hist EXCEPT ![p].locks = @ + 1,
                            ![p].atLock = <<clusters, imageFiles>>]
    /\ UNCHANGED <<name, data, features, filename, imgModel, cluster, err,
                   clusters, imageFiles, files>>
    /\ UNCHANGED fnVars

\* this.mutex.Lock()
Lock(p) ==
    /\ pc[p] = "lock"
    /\ mutex = NoProc
    /\ mutex' = p
    /\ pc' = [pc EXCEPT ![p] = "getCluster"]
    /\ hist' = [hist EXCEPT ![p].locks = @ + 1,
                            ![p].atLock = <<clusters, imageFiles>>]
    /\ UNCHANGED <<name, data, features, filename, imgModel, cluster, err,
                   clusters, imageFiles, files>>
    /\ UNCHANGED fnVars

\* hist[p] after one more record-store call of p.
Stored(p) ==
    [hist[p] EXCEPT !.storeOps = @ + 1, !.bareStore = @ \/ mutex # p]

\* cluster := getCluster(this, features); it is never nil.
GetCluster(p) ==
    /\ pc[p] = "getCluster"
    /\ LET got == getCluster(clusters, features[p])
       IN  /\ clusters' = got.clusters
           /\ cluster' = [cluster EXCEPT ![p] = got.result]
           /\ hist' = [hist EXCEPT
                         ![p] = [Stored(p) EXCEPT
                                   !.made = IF got.created
                                            THEN got.result ELSE @]]
    /\ pc' = [pc EXCEPT ![p] = "scan"]
    /\ UNCHANGED <<name, data, features, filename, imgModel, err, mutex,
                   imageFiles, files>>
    /\ UNCHANGED fnVars

\* Mutant: the lock is given up after the scan (scan and insert split).
ScanPassUnlocks(p) ==
    /\ pc[p] = "scan"
    /\ TooSimilar(imageFiles, getAssocs(imageFiles, cluster[p]),
                  features[p]) = {}
    /\ pc' = [pc EXCEPT ![p] = "fileExists"]
    /\ mutex' = NoProc
    /\ hist' = [hist EXCEPT ![p] = Stored(p)]
    /\ UNCHANGED <<name, data, features, filename, imgModel, cluster, err,
                   clusters, imageFiles, files>>
    /\ UNCHANGED fnVars

\* Mutant: the similarity loop is skipped.
ScanPassNoLoop(p) ==
    /\ pc[p] = "scan"
    /\ pc' = [pc EXCEPT ![p] = "fileExists"]
    /\ hist' = [hist EXCEPT ![p] = Stored(p)]
    /\ UNCHANGED <<name, data, features, filename, imgModel, cluster, err,
                   mutex, clusters, imageFiles, files>>
    /\ UNCHANGED fnVars

\* imgFiles := getAssocs(this, cluster) and the similarity loop, which found
\* no row too similar.
ScanPass(p) ==
    /\ pc[p] = "scan"
    /\ TooSimilar(imageFiles, getAssocs(imageFiles, cluster[p]),
                  features[p]) = {}
    /\ pc' = [pc EXCEPT ![p] = "fileExists"]
    /\ hist' = [hist EXCEPT ![p] = Stored(p)]
    /\ UNCHANGED <<name, data, features, filename, imgModel, cluster, err,
                   mutex, clusters, imageFiles, files>>
    /\ UNCHANGED fnVars

\* ... and the similarity loop returning &DupFileError{...}.
ScanDup(p) ==
    /\ pc[p] = "scan"
    /\ \E i \in TooSimilar(imageFiles, getAssocs(imageFiles, cluster[p]),
                           features[p]) :
         err' = [err EXCEPT
                   ![p] = DupFileError(imageFiles[i].Name \o "."
                                         \o imageFiles[i].Format,
                                       filename[p])]
    /\ pc' = [pc EXCEPT ![p] = "unlock"]
    /\ hist' = [hist EXCEPT ![p] = Stored(p)]
    /\ UNCHANGED <<name, data, features, filename, imgModel, cluster, mutex,
                   clusters, imageFiles, files>>
    /\ UNCHANGED fnVars

\* if fileExists(this, imgModel.Name) { ... }: the name is free.
NameFree(p) ==
    /\ pc[p] = "fileExists"
    /\ ~fileExists(imageFiles, imgModel[p].Name)
    /\ pc' = [pc EXCEPT ![p] = "append"]
    /\ hist' = [hist EXCEPT ![p] = Stored(p)]
    /\ UNCHANGED <<name, data, features, filename, imgModel, cluster, err,
                   mutex, clusters, imageFiles, files>>
    /\ UNCHANGED fnVars

\* Mutant: the filename is left as it was computed from the declared name.
NameTakenKeepsFilename(p) ==
    /\ pc[p] = "fileExists"
    /\ fileExists(imageFiles, imgModel[p].Name)
    /\ \E r \in RandReads :
         LET appendage == HexEncode(r)
             suffixed == imgModel[p].Name \o appendage
         IN  /\ imgModel' = [imgModel EXCEPT ![p].Name = suffixed]
             /\ hist' = [hist EXCEPT
                           ![p] = [Stored(p) EXCEPT !.suffix = appendage]]
    /\ pc' = [pc EXCEPT ![p] = "append"]
    /\ UNCHANGED <<name, data, features, filename, cluster, err, mutex,
                   clusters, imageFiles, files>>
    /\ UNCHANGED fnVars

\* ... the name is taken: 8 bytes from rando, hex encoded, are appended.
NameTaken(p) ==
    /\ pc[p] = "fileExists"
    /\ fileExists(imageFiles, imgModel[p].Name)
    /\ \E r \in RandReads :
         LET appendage == HexEncode(r)
             suffixed == imgModel[p].Name \o appendage
         IN  /\ imgModel' = [imgModel EXCEPT ![p].Name = suffixed]
             /\ filename' = [filename EXCEPT
                               ![p] = suffixed \o "." \o imgModel[p].Format]
             /\ hist' = [hist EXCEPT
                           ![p] = [Stored(p) EXCEPT !.suffix = appendage]]
    /\ pc' = [pc EXCEPT ![p] = "append"]
    /\ UNCHANGED <<name, data, features, cluster, err, mutex, clusters,
                   imageFiles, files>>
    /\ UNCHANGED fnVars

\* this.Model(cluster).Association("ImageFiles").Append(*imgModel); return nil
AppendModel(p) ==
    /\ pc[p] = "append"
    /\ imageFiles' = AppendImageFile(imageFiles, cluster[p], imgModel[p])
    /\ hist' = [hist EXCEPT
                  ![p] = [Stored(p) EXCEPT
                            !.mine = IF imageFiles' # imageFiles
                                     THEN Len(imageFiles') ELSE @]]
    /\ pc' = [pc EXCEPT ![p] = "unlock"]
    /\ UNCHANGED <<name, data, features, filename, imgModel, cluster, err,
                   mutex, clusters, files>>
    /\ UNCHANGED fnVars

\* Mutant: the mutex is released only on the path that returns nil.
UnlockOnNilOnly(p) ==
    /\ pc[p] = "unlock"
    /\ mutex' = IF err[p] = NilErr THEN NoProc ELSE mutex
    /\ pc' = [pc EXCEPT ![p] = IF err[p] = NilErr THEN "create" ELSE "done"]
    /\ UNCHANGED <<name, data, features, filename, imgModel, cluster, err,
                   clusters, imageFiles, files, hist>>
    /\ UNCHANGED fnVars

\* defer this.mutex.Unlock(), then "if err != nil { return }".
Unlock(p) ==
    /\ pc[p] = "unlock"
    /\ mutex' = NoProc
    /\ pc' = [pc EXCEPT ![p] = IF err[p] = NilErr THEN "create" ELSE "done"]
    /\ UNCHANGED <<name, data, features, filename, imgModel, cluster, err,
                   clusters, imageFiles, files, hist>>
    /\ UNCHANGED fnVars

\* ------------------------------------------------------------- blob
Put(fs, fn, content) ==
    [x \in DOMAIN fs \cup {fn} |-> IF x = fn THEN content ELSE fs[x]]

BlobOp(p) ==
    [hist EXCEPT ![p].blobOps = @ + 1,
                 ![p].lockedBlob = @ \/ mutex = p]

\* os.Create succeeds: the file exists and is empty.
Create(p) ==
    /\ pc[p] = "create"
    /\ files' = Put(files, filename[p], Empty)
    /\ hist' = BlobOp(p)
    /\ pc' = [pc EXCEPT ![p] = "write"]
    /\ UNCHANGED <<name, data, features, filename, imgModel, cluster, err,
                   mutex, clusters, imageFiles>>
    /\ UNCHANGED fnVars

\* Mutant: a failed Create takes the call's record back out of the table.
CreateFailRollback(p) ==
    /\ pc[p] = "create"
    /\ err' = [err EXCEPT ![p] = [kind |-> "io"]]
    /\ imageFiles' = SelectSeq(imageFiles,
                               LAMBDA r : r.Name # imgModel[p].Name)
    /\ hist' = [hist EXCEPT ![p].blobOps = @ + 1]
    /\ pc' = [pc EXCEPT ![p] = "done"]
    /\ UNCHANGED <<name, data, features, filename, imgModel, cluster, mutex,
                   clusters, files>>
    /\ UNCHANGED fnVars

\* os.Create fails.
CreateFail(p) ==
    /\ pc[p] = "create"
    /\ err' = [err EXCEPT ![p] = IOError]
    /\ hist' = BlobOp(p)
    /\ pc' = [pc EXCEPT ![p] = "done"]
    /\ UNCHANGED <<name, data, features, filename, imgModel, cluster, mutex,
                   clusters, imageFiles, files>>
    /\ UNCHANGED fnVars

\* file.Write succeeds: data from offset 0.  Over what another descriptor
\* wrote since this call's Create, the result is data or, when the other
\* content is longer, data followed by its tail.
Write(p) ==
    /\ pc[p] = "write"
    /\ \E c \in (IF files[filename[p]] \in {Empty, data[p]}
                 THEN {data[p]} ELSE {data[p], Mixed}) :
         /\ files' = Put(files, filename[p], c)
         /\ hist' = [BlobOp(p) EXCEPT ![p].blob = c]
    /\ pc' = [pc EXCEPT ![p] = "done"]
    /\ UNCHANGED <<name, data, features, filename, imgModel, cluster, err,
                   mutex, clusters, imageFiles>>
    /\ UNCHANGED fnVars

\* file.Write fails, having written nothing.
WriteFail(p) ==
    /\ pc[p] = "write"
    /\ err' = [err EXCEPT ![p] = IOError]
    /\ hist' = BlobOp(p)
    /\ pc' = [pc EXCEPT ![p] = "done"]
    /\ UNCHANGED <<name, data, features, filename, imgModel, cluster, mutex,
                   clusters, imageFiles, files>>
    /\ UNCHANGED fnVars

Next ==
    \E p \in Procs :
        \/ Begin(p)
        \/ Lock(p)
        \/ GetCluster(p)
        \/ ScanPass(p)
        \/ ScanDup(p)
        \/ NameFree(p)
        \/ NameTaken(p)
        \/ AppendModel(p)
        \/ Unlock(p)
        \/ Create(p)
        \/ CreateFail(p)
        \/ Write(p)
        \/ WriteFail(p)

Spec == Init /\ [][Next]_vars

\* A step of call p once it is made.  The goroutine of a call keeps running,
\* and a call blocked in Lock gets the mutex some time after it is released:
\* weak fairness of the steps of every call.
Step(p) ==
    \/ Lock(p)
    \/ GetCluster(p)
    \/ ScanPass(p)
    \/ ScanDup(p)
    \/ NameFree(p)
    \/ NameTaken(p)
    \/ AppendModel(p)
    \/ Unlock(p)
    \/ Create(p)
    \/ CreateFail(p)
    \/ Write(p)
    \/ WriteFail(p)

\* The calls of the fair runs: one declared name, so that a second accepted
\* call takes the suffix path, and images of every path through the
\* critical section (a first of its bucket, a near-duplicate, another
\* bucket) and one that returns before it.
FairData == {"red", "red1", "red8", "junk"}

BeginFair(p) ==
    /\ Begin(p)
    /\ name'[p] = "a"
    /\ data'[p] \in FairData

NextFair == \E p \in Procs : BeginFair(p) \/ Step(p)

SpecFair ==
    Init /\ [][NextFair]_vars /\ \A p \in Procs : WF_vars(Step(p))

\* The calls made one after the other: a call is made when every call made
\* before it has returned.
BeginSeq(p) ==
    /\ \A q \in Procs : pc[q] \in {"idle", "done"}
    /\ Begin(p)

NextSeq ==
    \E p \in Procs :
        \/ BeginSeq(p)
        \/ Lock(p)
        \/ GetCluster(p)
        \/ ScanPass(p)
        \/ ScanDup(p)
        \/ NameFree(p)
        \/ NameTaken(p)
        \/ AppendModel(p)
        \/ Unlock(p)
        \/ Create(p)
        \/ CreateFail(p)
        \/ Write(p)
        \/ WriteFail(p)

SpecSeq == Init /\ [][NextSeq]_vars

\* New on the database and the directory an earlier run left after one
\* accepted AddImg("a", red): the state Spec reaches when that call returns.
EarlierFeats == GenerateFeature(Decode("red"), Decode("red").format)

EarlierModel ==
    [Name |-> "a", Format |-> Decode("red").format,
     Index |-> stringify(EarlierFeats)]

InitReopened ==
    LET got == getCluster(<< >>, EarlierFeats)
    IN  InitWith(got.clusters,
                 AppendImageFile(<< >>, got.result, EarlierModel),
                 Put(<< >>, "a." \o EarlierModel.Format, "red"))

SpecReopened == InitReopened /\ [][Next]_vars

\* ------------------------------------------------------------- direct calls
\* ChiDist and bitApproximation called on two vectors, as the tests of
\* imgutil and getCluster do.  The vectors: lengths around FeatLen, mass in
\* bin 1 or 2 and in the last bin, each nothing, the least amount, a half,
\* just less than all, or all.
FnLens == {FeatLen - 1, FeatLen, FeatLen + 1}
FnVals == {0, 1, Unit \div 2, Unit - 1, Unit}
FnVecs ==
    {[x \in 1..n |-> IF x = n THEN v ELSE IF x = i THEN u ELSE 0] :
        n \in FnLens, i \in {1, 2}, u \in FnVals, v \in FnVals}

storeVars ==
    <<pc, name, data, features, filename, imgModel, cluster, err, mutex,
      clusters, imageFiles, files, hist>>

InitFn ==
    /\ InitStore(<< >>, << >>, << >>)
    /\ in1 \in FnVecs
    /\ in2 \in FnVecs
    /\ out = NoOut

\* ChiDist(in1, in2), ChiDist(in2, in1), ChiDist(in1, in1), and ChiDist of
\* in1 and what the store gives back for it (AddImg: features against
\* featureParse of the Index stringify made).
CallChiDist ==
    /\ out = NoOut
    /\ out' = [fn |-> "ChiDist",
               ab |-> ChiDist(in1, in2),
               ba |-> ChiDist(in2, in1),
               aa |-> ChiDist(in1, in1),
               stored |-> ChiDist(in1, featureParse(stringify(in1)))]
    /\ UNCHANGED <<in1, in2>>
    /\ UNCHANGED storeVars

\* bitApproximation(in1) and bitApproximation(in2).
CallBitApproximation ==
    /\ out = NoOut
    /\ out' = [fn |-> "bitApproximation",
               a |-> bitApproximation(in1),
               b |-> bitApproximation(in2)]
    /\ UNCHANGED <<in1, in2>>
    /\ UNCHANGED storeVars

NextFn == CallChiDist \/ CallBitApproximation

SpecFn == InitFn /\ [][NextFn]_vars

\* ------------------------------------------------------------- RGBHistogram
\* Bins per channel: 1..MaxBins, and the 8 of GenerateFeature.
MaxBins == 3
BinSet == 1..MaxBins

\* the largest value of a channel of RGBA()
limit == 65535
\* A float32 holds every integer up to 2^24; 2^24 + 1 rounds back to 2^24.
Float32Exact == 16777216

\* math.Ceil(a / b) for positive integers
CeilDiv(a, b) == (a + b - 1) \div b

\* r /= uint32(math.Ceil(limit / float64(this.rBin)))
Quantize(c, bins) == c \div CeilDiv(limit, bins)

\* r+g*this.rBin+b*this.rBin*this.gBin, 0-based, of a pixel
JointIndex(h, px) ==
    Quantize(px.r, h.rBin) + Quantize(px.g, h.gBin) * h.rBin
      + Quantize(px.b, h.bBin) * h.rBin * h.gBin

\* A float32 of Feature is written <<num, den>> for num / den, and
\* <<num, den, base>> for (base + num) / den with base a float32 other than 0.
Zero == <<0, 1>>

\* New(r, g, b)
NewHistogram(r, g, b) ==
    [rBin |-> r, gBin |-> g, bBin |-> b,
     Feature |-> [i \in 1..(r * g * b) |-> Zero]]

\* Feature[i]++ made k times after c times: a float32 count stops growing
\* at 2^24.
AddPixels(c, k) == IF c + k <= Float32Exact THEN c + k ELSE Float32Exact

\* float32(n) of an int below 2^25: above 2^24 only even numbers are float32
\* values, and an odd n goes to the neighbour that is a multiple of 4.
Float32Of(n) ==
    IF n <= Float32Exact \/ n % 2 = 0 THEN n
    ELSE IF (n + 1) % 4 = 0 THEN n + 1 ELSE n - 1

\* (base + c) / n, n a float32
Quot(base, c, n) ==
    IF c = 0 /\ n = 1 THEN base
    ELSE IF base = Zero THEN (IF c = 0 THEN Zero ELSE <<c, n>>)
    ELSE <<c, n, base>>

\* An image is given as its pixels in the order of the loops of Describe,
\* in runs of n pixels of one colour.
NPix(img) ==
    LET sum[i \in 0..Len(img)] == IF i = 0 THEN 0 ELSE sum[i - 1] + img[i].n
    IN  sum[Len(img)]

RECURSIVE CountRuns(_, _, _)
\* The counting loop of Describe over the first i runs: how often each bin
\* was incremented, and whether an index was out of range (a run-time
\* panic, which ends the loop).
CountRuns(h, img, i) ==
    IF i = 0 THEN [cnt |-> [j \in 1..Len(h.Feature) |-> 0], panic |-> FALSE]
    ELSE LET prev == CountRuns(h, img, i - 1)
             idx == JointIndex(h, img[i])
         IN  IF prev.panic THEN prev
             ELSE IF idx >= Len(h.Feature)
                  THEN [cnt |-> prev.cnt, panic |-> TRUE]
             ELSE [cnt |-> [prev.cnt EXCEPT
                              ![idx + 1] = AddPixels(@, img[i].n)],
                   panic |-> FALSE]

\* Describe: the Feature afterwards (normalized, or the counts so far when
\* the loop panicked).
Describe(h, img) ==
    LET c == CountRuns(h, img, Len(img))
        nPix == NPix(img)
    IN  [Feature |-> [j \in 1..Len(h.Feature) |->
                        Quot(h.Feature[j], c.cnt[j],
                             IF c.panic THEN 1 ELSE Float32Of(nPix))],
         panic |-> c.panic]

\* Mutant: copy moves one value.
CopyOneValue(f, i) == [f EXCEPT ![i + 1] = f[1]]

\* copy(Feature[i:], Feature[:i]): positions i .. min(2i, len) - 1 (0-based)
\* take the values of positions 0 .. ; copy moves min(len(dst), len(src))
\* values.
Copy(f, i) ==
    [j \in 1..Len(f) |-> IF j > i /\ j <= 2 * i THEN f[j - i] ELSE f[j]]

RECURSIVE ClearLoop(_, _)
\* for i := 1; i < nBins; i *= 2 { copy(Feature[i:], Feature[:i]) }
ClearLoop(f, i) ==
    IF i >= Len(f) THEN f ELSE ClearLoop(Copy(f, i), 2 * i)

\* Clear
Clear(f) ==
    IF Len(f) = 0 THEN f ELSE ClearLoop([f EXCEPT ![1] = Zero], 1)

\* Describe and Clear called on one histogram, in any order, MaxCalls times:
\* in1 is the histogram, in2 the image, out the last call.
MaxCalls == 3

Colours ==
    {[r |-> 0, g |-> 0, b |-> 0],
     [r |-> limit, g |-> 0, b |-> 0],
     [r |-> limit, g |-> limit, b |-> 0],
     [r |-> limit - 1, g |-> limit - 1, b |-> limit - 1],
     [r |-> limit \div 2, g |-> limit \div 2 + 1, b |-> limit - 1]}

\* 1 x 1, 4096 x 4096 and 4097 x 4096 pixels
PixelCounts == {1, Float32Exact, Float32Exact + 4096}

Runs == {[r |-> c.r, g |-> c.g, b |-> c.b, n |-> k] : c \in Colours, k \in PixelCounts}

\* Images of one colour, and images whose last pixel has another colour.
Images ==
    {<<u>> : u \in Runs} \cup
    {<<u, v>> : u \in Runs, v \in {w \in Runs : w.n = 1}}

Histograms ==
    {NewHistogram(r, g, b) : r \in BinSet, g \in BinSet, b \in BinSet}
      \cup {NewHistogram(8, 8, 8)}

Zeroed(f) == \A j \in 1..Len(f) : f[j] = Zero

InitHist ==
    /\ InitStore(<< >>, << >>, << >>)
    /\ in1 \in Histograms
    /\ in2 \in Images
    /\ out = [fn |-> "New", n |-> 0]

CallDescribe ==
    /\ out.n < MaxCalls
    /\ LET d == Describe(in1, in2)
       IN  /\ in1' = [in1 EXCEPT !.Feature = d.Feature]
           /\ out' = [fn |-> "Describe", n |-> out.n + 1,
                      zeroed |-> Zeroed(in1.Feature),
                      after |-> out.fn,
                      dirty |-> out.fn = "Clear" /\ out.dirty,
                      panic |-> d.panic,
                      bins |-> [i \in 1..Len(in2) |->
                                  [r |-> Quantize(in2[i].r, in1.rBin),
                                   g |-> Quantize(in2[i].g, in1.gBin),
                                   b |-> Quantize(in2[i].b, in1.bBin),
                                   idx |-> JointIndex(in1, in2[i])]]]
    /\ UNCHANGED in2
    /\ UNCHANGED storeVars

CallClear ==
    /\ out.n < MaxCalls
    /\ in1' = [in1 EXCEPT !.Feature = Clear(in1.Feature)]
    /\ out' = [fn |-> "Clear", n |-> out.n + 1,
               dirty |-> ~Zeroed(in1.Feature)]
    /\ UNCHANGED in2
    /\ UNCHANGED storeVars

NextHist == CallDescribe \/ CallClear

SpecHist == InitHist /\ [][NextHist]_vars

\* stringify and featureParse called one after the other on a vector of
\* float32 given by their 32 bits (sign bit 0): in1 is the vector, out the
\* last call.
MaxVecLen == 2

\* 0, the smallest float32, 2^-149 * 255, * 256, * 65535, * 65536, 0.123,
\* 0.5, the float32 below 1, 1 and the largest float32
Float32Bits ==
    {0, 1, 255, 256, 65535, 65536, 1039918957, 1056964608, 1065353215,
     1065353216, 2139095039}

RECURSIVE VecsOf(_)
VecsOf(n) ==
    IF n = 0 THEN {<< >>}
    ELSE {Append(v, x) : v \in VecsOf(n - 1), x \in Float32Bits}

CodecVecs == UNION {VecsOf(n) : n \in 0..MaxVecLen}

InitCodec ==
    /\ InitStore(<< >>, << >>, << >>)
    /\ in1 \in CodecVecs
    /\ in2 = << >>
    /\ out = NoOut

CallStringify ==
    /\ out = NoOut
    /\ out' = [fn |-> "stringify", str |-> stringify(in1)]
    /\ UNCHANGED <<in1, in2>>
    /\ UNCHANGED storeVars

CallFeatureParse ==
    /\ out.fn = "stringify"
    /\ out' = [fn |-> "featureParse", str |-> out.str,
               arr |-> featureParse(out.str)]
    /\ UNCHANGED <<in1, in2>>
    /\ UNCHANGED storeVars

NextCodec == CallStringify \/ CallFeatureParse

SpecCodec == InitCodec /\ [][NextCodec]_vars

\* ------------------------------------------------------------- properties
Started(p) == pc[p] # "idle"
Done(p) == pc[p] = "done"
InFlight(p) == pc[p] \notin {"idle", "done"}
\* call p passed decode, size filter and feature extraction
Passed(p) == Started(p) /\ features[p] # << >>
IsDup(p) == err[p].kind = "dup"
\* call p appended a row; Rec(p) is that row
Committed(p) == hist[p].mine # 0
Rec(p) == imageFiles[hist[p].mine]
RecFile(r) == r.Name \o "." \o r.Format
Within(f, g) == ChiDist(f, g) < chiThresh
SameBucket(f, g) == bitApproximation(f) = bitApproximation(g)
AllReturned == \A p \in Procs : Done(p)
Calls == {p \in Procs : Passed(p)}
\* every row of the table was appended by a call of G
OnlyTheirs(G) == \A i \in DOMAIN imageFiles : \E p \in G : hist[p].mine = i
ExactlyOne(G) ==
    /\ Cardinality({p \in G : Committed(p)}) = 1
    /\ \A p \in G : ~Committed(p) => IsDup(p)
Suffixed(q) ==
    /\ Len(hist[q].suffix) = 16
    /\ imgModel[q].Name = name[q] \o hist[q].suffix

\* C1 (as amended): two rows committed into one bucket by two calls are
\* never within chiThresh of each other; and when the calls made, on a store
\* with no other row, have vectors pairwise within chiThresh AND of the same
\* bucket signature and all have returned, exactly one has committed a row
\* and every other one returned a DupFileError.
C1_OneCommitPerBucket ==
    /\ \A p, q \in Procs :
         ( /\ p < q /\ Committed(p) /\ Committed(q)
           /\ Rec(p).ClusterID = Rec(q).ClusterID )
         => ~Within(features[p], features[q])
    /\ ( /\ AllReturned
         /\ Cardinality(Calls) >= 2
         /\ OnlyTheirs(Calls)
         /\ \A p, q \in Calls : /\ SameBucket(features[p], features[q])
                                /\ Within(features[p], features[q]) )
       => ExactlyOne(Calls)

\* C1 witness: two calls in flight at the same time with different images of
\* one bucket, within the threshold; one has committed and is at its blob
\* write, the other leaves the critical section with the DupFileError.
C1_Witness ==
    \E p, q \in Procs :
        /\ pc[p] \in {"create", "write"} /\ Committed(p)
        /\ pc[q] = "unlock" /\ IsDup(q)
        /\ data[p] # data[q]
        /\ Within(features[p], features[q])
        /\ SameBucket(features[p], features[q])

\* C1 as stated: of concurrent calls (both in flight at the same time)
\* within chiThresh of each other, whatever their buckets, at most one
\* commits a row.
C1_OneCommit ==
    \A p, q \in Procs :
        ( /\ p < q /\ InFlight(p) /\ InFlight(q)
          /\ Committed(p) /\ Committed(q) )
        => ~Within(features[p], features[q])

\* The precondition of C2.  The calls are numbered in the order in which
\* they are made, and under SpecSeq each is made when the one before has
\* returned: p had committed a row and returned when q was made, and q's
\* vector is within chiThresh of that row's.
LaterDup(p, q) ==
    /\ p < q /\ Committed(p) /\ Passed(q)
    /\ Within(features[q], featureParse(Rec(p).Index))

\* C2 (as amended): after A was accepted, a later call B within chiThresh of
\* A's vector AND with A's bucket signature never gets past the scan, adds
\* no row, and returns a DupFileError whose 'existing' is name.format of a
\* stored row of that bucket within chiThresh of B's vector (A or another).
C2_LaterDupRejected ==
    \A p, q \in Procs :
        ( LaterDup(p, q)
          /\ bitApproximation(features[q]) = clusters[Rec(p).ClusterID].Name )
        => /\ pc[q] \in {"lock", "getCluster", "scan", "unlock", "done"}
           /\ ~Committed(q)
           /\ pc[q] \in {"unlock", "done"} =>
                /\ IsDup(q)
                /\ err[q].dupfile = name[q] \o "." \o Decode(data[q]).format
                /\ \E i \in DOMAIN imageFiles :
                       /\ imageFiles[i].ClusterID = cluster[q]
                       /\ err[q].existing = RecFile(imageFiles[i])
                       /\ Within(features[q],
                                 featureParse(imageFiles[i].Index))

\* C2 witness: B, another image, returned the DupFileError naming A.
C2_Witness ==
    \E p, q \in Procs :
        /\ LaterDup(p, q) /\ Done(q) /\ IsDup(q) /\ data[p] # data[q]
        /\ err[q].existing = RecFile(Rec(p))

\* C2 as stated: B within chiThresh of A (whatever the buckets) returns a
\* DupFileError naming A and adds no row.
C2_LaterDupNamesFirst ==
    \A p, q \in Procs :
        LaterDup(p, q)
        => /\ ~Committed(q)
           /\ Done(q) => IsDup(q) /\ err[q].existing = RecFile(Rec(p))

InCS(p) == pc[p] \in {"getCluster", "scan", "fileExists", "append", "unlock"}

\* the row call p appends
RowOf(p) ==
    [Name |-> imgModel[p].Name, Format |-> imgModel[p].Format,
     Index |-> imgModel[p].Index, ClusterID |-> cluster[p]]

\* C3: a call between Lock and Unlock holds the mutex (so at most one call
\* is there); a call locks at most once and makes every record-store call
\* while holding the mutex; and while it is there the tables are what they
\* were when it locked plus what it added itself.
C3_StoreUnderMutex ==
    \A p \in Procs :
        /\ InCS(p) => mutex = p
        /\ hist[p].locks <= 1
        /\ ~hist[p].bareStore
        /\ hist[p].storeOps > 0 => hist[p].locks = 1
        /\ InCS(p) =>
             /\ clusters =
                  IF hist[p].made # 0
                  THEN Append(hist[p].atLock[1],
                              [Name |-> bitApproximation(features[p])])
                  ELSE hist[p].atLock[1]
             /\ imageFiles =
                  IF hist[p].mine # 0
                  THEN Append(hist[p].atLock[2], RowOf(p))
                  ELSE hist[p].atLock[2]

\* C3 witness: one call has made all its store calls and still holds the
\* mutex while another waits for it.
C3_Witness ==
    \E p, q \in Procs :
        /\ pc[p] = "unlock" /\ Committed(p) /\ hist[p].storeOps = 4
        /\ mutex = p /\ pc[q] = "lock"

\* C4: a call that returns a DupFileError created no Cluster and appended no
\* ImageFile, and when it leaves the critical section the tables are what
\* they were when it entered.
C4_DupLeavesStore ==
    \A p \in Procs :
        (IsDup(p) /\ pc[p] \in {"unlock", "done"})
        => /\ hist[p].made = 0
           /\ hist[p].mine = 0
           /\ pc[p] = "unlock" => <<clusters, imageFiles>> = hist[p].atLock

\* C4 witness: a call about to leave the critical section with a
\* DupFileError, on a store that holds a row.
C4_Witness ==
    \E p \in Procs :
        /\ pc[p] = "unlock" /\ IsDup(p) /\ hist[p].storeOps = 2
        /\ Len(imageFiles) > 0

Rejects == {"decode", "small", "features"}

\* the inputs C5 is about
Invalid(img) ==
    \/ img.err
    \/ img.w < MinW
    \/ img.h < MinH
    \/ img.format \notin {"png", "jpeg"}

\* C5: a call whose data does not decode, is narrower than MinW or lower
\* than MinH, or is neither png nor jpeg has returned an error without ever
\* locking, calling the record store or the file system; any other call
\* (a dimension equal to the minimum included) is not rejected that way.
C5_RejectsTouchNothing ==
    \A p \in Procs :
        Started(p) =>
          LET img == Decode(data[p])
          IN  /\ Invalid(img) =>
                   /\ Done(p)
                   /\ err[p].kind \in Rejects
                   /\ imgModel[p] = NoModel
                   /\ hist[p] = NoHist
              /\ ~Invalid(img) => err[p].kind \notin Rejects

\* C5 witness: a rejected call beside an accepted call of an image of
\* exactly MinW x MinH, with the store and the directory holding only what
\* the accepted call put there.
C5_Witness ==
    \E p, q \in Procs :
        /\ Done(p) /\ Invalid(Decode(data[p])) /\ err[p].kind = "small"
        /\ Done(q) /\ Decode(data[q]).w = MinW /\ Decode(data[q]).h = MinH
        /\ err[q] = NilErr /\ Committed(q)
        /\ Len(imageFiles) = 1 /\ Cardinality(DOMAIN files) = 1

\* call p reached the blob write
AtBlob(p) == pc[p] \in {"create", "write"} \/ hist[p].blobOps > 0

\* C6 as stated: the names of the stored rows are pairwise distinct and no
\* two calls that reach the blob write use the same filename.
C6_UniqueFilenames ==
    /\ \A i, j \in DOMAIN imageFiles :
         i # j => imageFiles[i].Name # imageFiles[j].Name
    /\ \A p, q \in Procs :
         (p # q /\ AtBlob(p) /\ AtBlob(q)) => filename[p] # filename[q]

\* some other row of q's bucket is within chiThresh of q's vector
OthersTooSimilar(q) ==
    \E i \in DOMAIN imageFiles :
        /\ i # hist[q].mine
        /\ imageFiles[i].ClusterID = cluster[q]
        /\ Within(features[q], featureParse(imageFiles[i].Index))

\* Under SpecSeq: the first of two calls with one declared name, made one
\* after the other, was stored under that name, and the second has returned.
SameNameLater(p, q) ==
    /\ p < q /\ Committed(p) /\ Rec(p).Name = name[p]
    /\ name[q] = name[p] /\ Passed(q) /\ Done(q)

\* C7 (as amended): of two sequential calls with the same declared name, the
\* first stored under that name, the second, when no other row of its
\* bucket is within chiThresh of its vector, is not rejected as a duplicate:
\* it goes on to the blob write, returns nil or the blob error, and the name
\* it returns (and stores, when its row is stored) is the declared name plus
\* a 16-character suffix, different from the first's.
C7_SameNameSuffixed ==
    \A p, q \in Procs :
        (SameNameLater(p, q) /\ ~OthersTooSimilar(q))
        => /\ ~IsDup(q)
           /\ err[q] \in {NilErr, IOError}
           /\ hist[q].blobOps > 0
           /\ Suffixed(q)
           /\ imgModel[q].Name # Rec(p).Name
           /\ Committed(q) => Rec(q).Name = imgModel[q].Name

\* C7 witness: both calls returned nil, the second stored under the suffixed
\* name, its blob under the suffixed filename.
C7_Witness ==
    \E p, q \in Procs :
        /\ SameNameLater(p, q) /\ data[p] # data[q]
        /\ err[p] = NilErr /\ err[q] = NilErr
        /\ Committed(q) /\ Suffixed(q)
        /\ filename[q] \in DOMAIN files /\ files[filename[q]] = data[q]

\* C7 as stated: two sequential calls with the same declared name and
\* different data: the second is not rejected as a duplicate and, unless the
\* blob write failed, is stored under a different name.
C7_SameNameBothSucceed ==
    \A p, q \in Procs :
        (SameNameLater(p, q) /\ err[p] = NilErr /\ data[p] # data[q])
        => /\ ~IsDup(q)
           /\ err[q] = NilErr =>
                Committed(q) /\ Rec(q).Name # Rec(p).Name

\* call q got past the name check without a DupFileError
PastNameCheck(q) ==
    \/ pc[q] \in {"append", "create", "write"}
    \/ pc[q] \in {"unlock", "done"} /\ ~IsDup(q)

\* call q entered the critical section when the row of call p was stored:
\* every call made after p returned is such a call
LockedAfter(p, q) ==
    /\ q # p /\ hist[q].locks = 1
    /\ hist[p].mine <= Len(hist[q].atLock[2])

C9_BlobAfterCommit ==
    \A p \in Procs :
        /\ AtBlob(p) => Committed(p) /\ hist[p].locks = 1 /\ mutex # p
        /\ ~hist[p].lockedBlob
        /\ err[p].kind \in Rejects \cup {"dup"} => hist[p].blobOps = 0

\* C10 as stated: a call that returned nil for a declared name no row had
\* (no suffix drawn) returns that name and the detected format, the table
\* holds exactly one row with that name, and the file name.format held
\* exactly the call's data when its Write returned.
C10_PlainNameSuccess ==
    \A p \in Procs :
        (Done(p) /\ err[p] = NilErr /\ hist[p].suffix = "")
        => /\ imgModel[p].Name = name[p]
           /\ imgModel[p].Format = Decode(data[p]).format
           /\ Cardinality({i \in DOMAIN imageFiles :
                             imageFiles[i].Name = name[p]}) = 1
           /\ filename[p] = name[p] \o "." \o Decode(data[p]).format
           /\ hist[p].blob = data[p]

\* The record of the solid-red image: all the mass in one bin.
SolidRed(d) ==
    /\ ~Decode(d).err
    /\ \E i \in 1..FeatLen : Decode(d).hist = Vec(i, i, 0)

\* the first two calls (under SpecSeq, made one after the other) have
\* ingested the same image d, and both have returned
Twice(d) == data[1] = d /\ data[2] = d /\ Done(1) /\ Done(2)

\* C11 (as amended): the same solid-red image of MinW x MinH (500 x 500, the
\* floor New sets) ingested twice into a new ImgDB: the first call commits
\* its record (and returns nil or the error of the blob write), the second
\* returns the DupFileError naming the first's record and adds none, so the
\* store holds one record with that vector.
C11_SameImageTwice ==
    Twice("red")
    => /\ Committed(1) /\ err[1] \in {NilErr, IOError}
       /\ Rec(1).Name = name[1]
       /\ IsDup(2) /\ ~Committed(2)
       /\ err[2].existing = RecFile(Rec(1))
       /\ Cardinality({i \in DOMAIN imageFiles :
                         imageFiles[i].Index = Rec(1).Index}) = 1

\* C11 witness: the image is a solid-red one of exactly the minimum size,
\* the first call returned nil and the second the DupFileError.
C11_Witness ==
    /\ Twice("red") /\ SolidRed("red")
    /\ Decode("red").w = MinW /\ Decode("red").h = MinH
    /\ err[1] = NilErr /\ IsDup(2) /\ Len(imageFiles) = 1

\* C11 as stated: the same solid-red 100 x 100 image ingested twice into a
\* new ImgDB: the first call is accepted, the second is rejected as a
\* duplicate of the first, and exactly one record is left.
C11_Red100Twice ==
    (Twice("red100") /\ SolidRed("red100"))
    => /\ Committed(1)
       /\ IsDup(2)
       /\ Len(imageFiles) = 1

\* C12: for vectors of equal length (entries non-negative), ChiDist is the
\* same in both orders, is not negative, and is 0 of a vector and itself;
\* a vector against its own stored copy (stringify, then featureParse) is
\* at distance 0, below chiThresh.
C12_ChiDistMetric ==
    (out.fn = "ChiDist" /\ Len(in1) = Len(in2))
    => /\ out.ab = out.ba
       /\ out.ab >= 0
       /\ out.aa = 0
       /\ in1 = in2 => out.ab = 0
       /\ out.stored = 0 /\ out.stored < chiThresh

\* C12 witness: two different vectors of one length at a positive distance
\* below the threshold.
C12_Witness ==
    /\ out.fn = "ChiDist" /\ Len(in1) = Len(in2) /\ in1 # in2
    /\ out.ab > 0 /\ out.ab < chiThresh /\ out.ab = out.ba

\* in bin i the two vectors are on the same side of the bit test: both at
\* least 1.0, or both at most 1/len
SameSide(a, b, i) ==
    \/ a[i] >= Unit /\ b[i] >= Unit
    \/ a[i] * Len(a) <= Unit /\ b[i] * Len(a) <= Unit

\* C13 (as amended): two vectors of the same length which in every bin are
\* both at least 1.0 or both at most 1/len are given the identical
\* signature by bitApproximation.
C13_SignatureStable ==
    ( /\ out.fn = "bitApproximation" /\ Len(in1) = Len(in2)
      /\ \A i \in DOMAIN in1 : SameSide(in1, in2, i) )
    => out.a = out.b

\* C13 witness: two such vectors that differ in a bin of the first group
\* and have the same signature, with a bit set.
C13_Witness ==
    /\ out.fn = "bitApproximation" /\ Len(in1) = Len(in2)
    /\ \A i \in DOMAIN in1 : SameSide(in1, in2, i)
    /\ \E i \in 1..8 : i \in DOMAIN in1 /\ in1[i] # in2[i]
    /\ out.a = out.b
    /\ \E k \in DOMAIN out.a : out.a[k] # 0

\* C13 as stated: two vectors of the same length that differ by less than
\* 1/len in every bin have the identical signature.
C13_CloseSameSignature ==
    ( /\ out.fn = "bitApproximation" /\ Len(in1) = Len(in2)
      /\ \A i \in DOMAIN in1 :
           /\ (in1[i] - in2[i]) * Len(in1) < Unit
           /\ (in2[i] - in1[i]) * Len(in1) < Unit )
    => out.a = out.b

\* bit k (0-based) of byte b
Bit(b, k) == (b \div (2 ^ k)) % 2

\* C17 as stated: the bit of bin i (0-based: bit i%8 of byte i/8) is set
\* exactly when arr[i] exceeds 1/len(arr), for every bin of the vector.
C17_BitPerBin ==
    out.fn = "bitApproximation"
    => \A i \in DOMAIN in1 :
         LET byte == ((i - 1) \div 8) + 1
         IN  /\ byte \in DOMAIN out.a
             /\ (Bit(out.a[byte], (i - 1) % 8) = 1)
                  <=> (in1[i] * Len(in1) > Unit)

\* C14: any two distinct rows of the ImageFile table with the same cluster
\* are at ChiDist >= chiThresh.
C14_BucketRowsApart ==
    \A i, j \in DOMAIN imageFiles :
        (i < j /\ imageFiles[i].ClusterID = imageFiles[j].ClusterID)
        => ~Within(featureParse(imageFiles[i].Index),
                   featureParse(imageFiles[j].Index))

\* C14 witness: two rows in one bucket, the second appended by a call that
\* was in flight together with another call of that bucket.
C14_Witness ==
    \E p, q \in Procs :
        /\ p # q /\ Committed(p) /\ InFlight(p) /\ InFlight(q)
        /\ cluster[q] = cluster[p]
        /\ \E i \in DOMAIN imageFiles :
             /\ i # hist[p].mine
             /\ imageFiles[i].ClusterID = Rec(p).ClusterID

\* C15: no two Cluster rows have the same signature; and when getCluster
\* has returned (the call is at the scan), its result is a row of the table
\* (never nil) with the signature of the call's features: the row that was
\* there when the call locked, the table unchanged, if there was one; else
\* a new row, appended to that table, with no ImageFile associated.
C15_OneBucketPerSignature ==
    /\ \A i, j \in DOMAIN clusters :
         i < j => clusters[i].Name # clusters[j].Name
    /\ \A p \in Procs :
         pc[p] = "scan" =>
           LET sig == bitApproximation(features[p])
               before == hist[p].atLock[1]
               existed == \E i \in DOMAIN before : before[i].Name = sig
           IN  /\ cluster[p] \in DOMAIN clusters
               /\ clusters[cluster[p]].Name = sig
               /\ existed => /\ hist[p].made = 0
                             /\ cluster[p] \in DOMAIN before
                             /\ clusters = before
               /\ ~existed => /\ hist[p].made = cluster[p]
                              /\ clusters = Append(before, [Name |-> sig])
                              /\ getAssocs(imageFiles, cluster[p]) = {}

\* C15 witness: getCluster returned to one call the bucket that another
\* call, still in flight, had created and put a record in.
C15_Witness ==
    \E p, q \in Procs :
        /\ p # q /\ pc[p] = "scan" /\ hist[p].made = 0
        /\ InFlight(q) /\ hist[q].made = cluster[p] /\ Committed(q)
        /\ data[p] # data[q]

\* C16: a call holds the mutex only between its Lock and its deferred
\* Unlock (never once it is at the blob write or has returned, whatever it
\* returns), and every call that was made eventually returns.
C16_MutexReleased ==
    /\ [](\A p \in Procs : mutex = p => InCS(p))
    /\ \A p \in Procs : Started(p) ~> Done(p)

\* C16 witness: every call has locked and returned, one with a DupFileError
\* and one having appended its record, and the mutex is free.
C16_Witness ==
    /\ AllReturned /\ mutex = NoProc
    /\ \A p \in Procs : hist[p].locks = 1
    /\ \E p, q \in Procs : IsDup(p) /\ Committed(q)

\* the declared name of call p is the name of a row
NameCollides(p) == \E i \in DOMAIN imageFiles : imageFiles[i].Name = name[p]

\* C18: a call with a DupFileError: 'existing' is name.format of a row of the
\* table, of the call's bucket and within chiThresh of the call's vector;
\* 'dupfile' is the declared name.format; the call made no name check (two
\* record-store calls), drew no suffix and appended no row, also when its
\* declared name is the name of a row.  And a call that got to the name
\* check had no row of its bucket within chiThresh.
C18_DupErrorNamesStoredRow ==
    \A p \in Procs :
        /\ IsDup(p) =>
             /\ \E i \in DOMAIN imageFiles :
                  /\ imageFiles[i].ClusterID = cluster[p]
                  /\ err[p].existing = RecFile(imageFiles[i])
                  /\ Within(features[p], featureParse(imageFiles[i].Index))
             /\ err[p].dupfile = name[p] \o "." \o Decode(data[p]).format
             /\ filename[p] = err[p].dupfile
             /\ imgModel[p].Name = name[p]
             /\ hist[p].storeOps = 2
             /\ hist[p].suffix = ""
             /\ ~Committed(p)
        /\ pc[p] \in {"fileExists", "append"} => ~OthersTooSimilar(p)

\* C18 witness: a call that is a near-duplicate (of another image's row)
\* and whose declared name is that row's name returned the DupFileError.
C18_Witness ==
    \E p \in Procs :
        /\ Done(p) /\ IsDup(p) /\ NameCollides(p)
        /\ \E i \in DOMAIN imageFiles :
             /\ err[p].existing = RecFile(imageFiles[i])
             /\ imageFiles[i].Name = name[p]
             /\ imageFiles[i].Index # imgModel[p].Index

\* some row had the declared name of call p when p locked
TakenAtLock(p) ==
    \E i \in DOMAIN hist[p].atLock[2] : hist[p].atLock[2][i].Name = name[p]

\* call p has made the name check (its third record-store call)
NameChecked(p) == hist[p].storeOps >= 3

\* C19: once a call is past the name check, the name it returns is the
\* declared name if no row had that name when the call locked (no suffix
\* drawn), and otherwise the declared name followed by the 16 characters
\* hex.Encode makes of 8 bytes read from rando; the name check was made
\* once; the filename is that name, a dot and the format; and the row the
\* call appends has that name.
C19_ReturnedName ==
    \A p \in Procs :
        NameChecked(p) =>
          /\ ~TakenAtLock(p) =>
               /\ hist[p].suffix = ""
               /\ imgModel[p].Name = name[p]
          /\ TakenAtLock(p) =>
               /\ \E r \in RandReads : hist[p].suffix = HexEncode(r)
               /\ Len(hist[p].suffix) = 16
               /\ imgModel[p].Name = name[p] \o hist[p].suffix
          /\ hist[p].storeOps <= 4
          /\ filename[p] = imgModel[p].Name \o "." \o Decode(data[p]).format
          /\ imgModel[p].Format = Decode(data[p]).format
          /\ Committed(p) => Rec(p).Name = imgModel[p].Name

\* C19 witness: a call returned nil with a suffixed name, its row under that
\* name and its blob under the suffixed filename.
C19_Witness ==
    \E p \in Procs :
        /\ Done(p) /\ err[p] = NilErr /\ TakenAtLock(p) /\ Committed(p)
        /\ Rec(p).Name = name[p] \o hist[p].suffix
        /\ Len(hist[p].suffix) = 16
        /\ files[filename[p]] = data[p]

\* table t is the beginning of table u: no row removed or changed
Prefix(t, u) == Len(t) <= Len(u) /\ SubSeq(u, 1, Len(t)) = t

\* C20 as stated: no step removes or changes a Cluster or an ImageFile row;
\* every call that returned nil has appended exactly one row; and every row
\* is in the bucket whose signature is bitApproximation of its stored
\* vector.
C20_StoreOnlyGrows ==
    /\ [][Prefix(clusters, clusters') /\ Prefix(imageFiles, imageFiles')]_vars
    /\ [](\A p \in Procs :
            (Done(p) /\ err[p] = NilErr)
            => /\ Committed(p)
               /\ Cardinality({i \in DOMAIN imageFiles :
                                 imageFiles[i].Name = imgModel[p].Name
                                 /\ imageFiles[i].Index = imgModel[p].Index})
                    = 1)
    /\ [](\A i \in DOMAIN imageFiles :
            /\ imageFiles[i].ClusterID \in DOMAIN clusters
            /\ clusters[imageFiles[i].ClusterID].Name
                 = bitApproximation(featureParse(imageFiles[i].Index)))

\* ---- C21
Described == out.fn = "Describe"

\* C21 (as stated): for every bin count B >= 1 and channel value in
\* 0..65535 the bin index of Describe lies in 0..B-1, so the joint index
\* lies in 0..Br*Bg*Bb-1 and every pixel is counted.
C21_BinIndexInRange ==
    Described =>
        /\ \A i \in 1..Len(out.bins) :
              /\ out.bins[i].r \in 0..(in1.rBin - 1)
              /\ out.bins[i].g \in 0..(in1.gBin - 1)
              /\ out.bins[i].b \in 0..(in1.bBin - 1)
              /\ out.bins[i].idx \in 0..(Len(in1.Feature) - 1)
        /\ ~out.panic

\* ---- C22
\* The pixels of img in the quantization cell of Feature[j].
CellCount(h, img, j) ==
    LET sum[i \in 0..Len(img)] ==
            IF i = 0 THEN 0
            ELSE sum[i - 1] + (IF JointIndex(h, img[i]) = j - 1 THEN img[i].n ELSE 0)
    IN  sum[Len(img)]

IsOne(v) == Len(v) = 2 /\ v[1] = v[2]

\* C22 (as stated): Describe on a zeroed histogram leaves every bin equal to
\* (pixels of the image in that cell) / (pixels of the image); an image
\* whose pixels are all in one cell gives one bin equal to 1, the others 0.
C22_BinsAreShares ==
    (Described /\ out.zeroed) =>
        /\ \A j \in 1..Len(in1.Feature) :
              in1.Feature[j] = Quot(Zero, CellCount(in1, in2, j), NPix(in2))
        /\ (\A i \in 1..Len(in2) : out.bins[i].idx = out.bins[1].idx) =>
              \E j \in 1..Len(in1.Feature) :
                  /\ IsOne(in1.Feature[j])
                  /\ \A k \in 1..Len(in1.Feature) : k # j => in1.Feature[k] = Zero

\* ---- C23
\* C23: stringify(v) has 4 * len(v) bytes and featureParse(stringify(v))
\* is v, value for value.
C23_RoundTrip ==
    /\ out.fn = "stringify" => Len(out.str) = 4 * Len(in1)
    /\ out.fn = "featureParse" =>
          /\ Len(out.str) = 4 * Len(in1)
          /\ Len(out.arr) = Len(in1)
          /\ \A i \in 1..Len(in1) : out.arr[i] = in1[i]

\* Two different values, one of them with four different bytes none of
\* which is 0, have been written and read back.
C23_Witness ==
    /\ out.fn = "featureParse"
    /\ Len(in1) = 2
    /\ in1[1] # in1[2]
    /\ \E i \in 1..2 :
          /\ \A k \in 1..4 : out.str[4 * (i - 1) + k] # 0
          /\ \A k, l \in 1..4 : k # l => out.str[4 * (i - 1) + k] # out.str[4 * (i - 1) + l]

\* ---- C24
\* C24: Clear leaves every bin at 0, whatever the length of Feature, and a
\* Describe that follows a Clear leaves what Describe leaves on a histogram
\* just made by New.
C24_ClearZeroes ==
    /\ out.fn = "Clear" => Zeroed(in1.Feature)
    /\ (Described /\ out.after = "Clear") =>
          in1.Feature =
              Describe(NewHistogram(in1.rBin, in1.gBin, in1.bBin), in2).Feature

\* Describe has followed a Clear that found bins other than 0, beyond the
\* first three, in a Feature whose length is not a power of two.
C24_Witness ==
    /\ Described
    /\ out.after = "Clear"
    /\ out.dirty
    /\ ~out.panic
    /\ Len(in1.Feature) % 3 = 0
    /\ \E j \in 4..Len(in1.Feature) : in1.Feature[j] # Zero
====
